---- MODULE Spec2Model ----
(***************************************************************************)
(* Model of the `build` command of the Tina CLI                            *)
(* (packages/@tinacms/cli/src/next/commands/build-command/index.ts):       *)
(* BuildCommand.execute and BuildCommand.catch, checkClientInfo with its   *)
(* polling loop, checkGraphqlSchema, and the status helper request().      *)
(* Everything the command awaits from outside (the config manager, the     *)
(* database, codegen, the HTTP server, the schema diff library) is an      *)
(* input drawn with \E in the action that awaits it.                       *)
(***************************************************************************)
EXTENDS Integers, Sequences, FiniteSets

VARIABLES
  pc,               \* position of the command (the await it is at)
  exitCode,         \* -1 while the process runs, else the code it exited with
  started,          \* the steps of execute started so far, in order
  completed,        \* the steps that completed without error
  failedStep,       \* the step that failed, "none" if none did
  thrown,           \* the error in flight to / handled by BuildCommand.catch
  gitignoreWritten, \* fs.outputFile(outputGitignorePath, ...) was done
  token,            \* config.token
  branchKnown,      \* checkClientInfo: let branchKnown
  i,                \* checkClientInfo: the for loop's i
  bar,              \* ticks of the 'Checking clientId and token' bar
  branchBar,        \* ticks of the 'Checking branch is on Tina Cloud' bar
  reqCount,         \* status requests sent by checkClientInfo
  pollCount,        \* of these, the ones sent from the polling loop
  sleepCount,       \* 5 second sleeps taken by checkClientInfo
  initialStatus,    \* status returned by the initial request, "none" before
  sawKnownPoll,     \* a poll has returned a status other than 'unknown'
  requestFailed,    \* a status request of checkClientInfo has thrown
  cciOutcome,       \* how checkClientInfo ended: none/returned/threwRequest/threwBranch
  lastResp,         \* the HTTP response the last request() call got
  lastRes,          \* what that request() call produced
  diffResult,       \* checkGraphqlSchema: the result of diff(local, remote)
  diffComputed,     \* checkGraphqlSchema got as far as the diff
  schemaBar,        \* ticks of the 'Checking local GraphQL Schema' bar
  schemaOutcome     \* how checkGraphqlSchema ended: none/returned/threwMismatch/threwOther

execVars   == <<pc, exitCode, started, completed, failedStep, thrown, gitignoreWritten>>
cciVars    == <<branchKnown, i, bar, branchBar, reqCount, pollCount, sleepCount,
                initialStatus, sawKnownPoll, requestFailed, cciOutcome, lastResp, lastRes>>
schemaVars == <<diffResult, diffComputed, schemaBar, schemaOutcome>>
vars       == <<execVars, token, cciVars, schemaVars>>

----------------------------------------------------------------------------
(* Inputs *)

\* config.token: unset/empty, or a read only token
Tokens == {"", "tok"}

\* IndexStatusResponse['status']
Statuses == {"unknown", "success", "failed", "inprogress"}

\* HTTP status codes the server may answer with
HttpCodes == {200, 401, 503}

\* Parsed JSON bodies: null, or an object with a status and possibly errors
Bodies == [isNull : {FALSE}, hasErrors : BOOLEAN, status : Statuses]
            \cup {[isNull |-> TRUE, hasErrors |-> FALSE, status |-> "unknown"]}

\* What fetch(url) and res.json() deliver: a rejection, or a response with a body
Responses == [rejected : {FALSE}, code : HttpCodes, json : Bodies]
               \cup {[rejected |-> TRUE, code |-> 200,
                      json |-> [isNull |-> TRUE, hasErrors |-> FALSE, status |-> "unknown"]]}

NoResponse == [rejected |-> TRUE, code |-> 0,
               json |-> [isNull |-> TRUE, hasErrors |-> FALSE, status |-> "unknown"]]

\* Kinds of change the schema diff library reports
ChangeKinds == {"TYPE_REMOVED", "FIELD_ADDED"}

----------------------------------------------------------------------------
(* request(): the status helper *)

\* Response.ok of node-fetch: a 2xx status
ResOk(res) == res.code >= 200 /\ res.code < 300

RequestHeaders(tok) ==
  (IF tok # "" THEN {"X-API-KEY"} ELSE {}) \cup {"Content-Type"}

NoResult == [kind |-> "none", error |-> "none", status |-> "none", headers |-> {}]

ErrorResult(e, tok) ==
  [kind |-> "error", error |-> e, status |-> "none", headers |-> RequestHeaders(tok)]

\* Mutant: the errors field is looked at before res.ok
requestErrorsFirst(tok, res) ==
  IF res.rejected THEN ErrorResult("FetchError", tok)
  ELSE IF res.json.isNull /\ ResOk(res) THEN ErrorResult("TypeError", tok)
  ELSE IF res.json.hasErrors THEN ErrorResult("Unable to fetch", tok)
  ELSE IF ~ResOk(res) THEN ErrorResult("Server responded with status code", tok)
  ELSE [kind |-> "value", error |-> "none", status |-> res.json.status,
        headers |-> RequestHeaders(tok)]

\* async function request(args: {url, token}): fetch, res.json(), the checks
request(tok, res) ==
  IF res.rejected THEN ErrorResult("FetchError", tok)
  ELSE IF ~ResOk(res) THEN ErrorResult("Server responded with status code", tok)
  ELSE IF res.json.isNull THEN ErrorResult("TypeError", tok)
  ELSE IF res.json.hasErrors THEN ErrorResult("Unable to fetch", tok)
  ELSE [kind |-> "value", error |-> "none", status |-> res.json.status,
        headers |-> RequestHeaders(tok)]

----------------------------------------------------------------------------
(* BuildCommand.execute: the steps and what a failure does *)

StepOrder == << "processConfig", "buildSchema", "codegen", "checkClientInfo",
                "waitForDB", "checkGraphqlSchema", "buildProductionSpa",
                "outputGitignore" >>

Init ==
  /\ pc = "processConfig"
  /\ exitCode = -1
  /\ started = << >>
  /\ completed = {}
  /\ failedStep = "none"
  /\ thrown = "none"
  /\ gitignoreWritten = FALSE
  /\ token \in Tokens
  /\ branchKnown = FALSE
  /\ i = 0
  /\ bar = << >>
  /\ branchBar = << >>
  /\ reqCount = 0
  /\ pollCount = 0
  /\ sleepCount = 0
  /\ initialStatus = "none"
  /\ sawKnownPoll = FALSE
  /\ requestFailed = FALSE
  /\ cciOutcome = "none"
  /\ lastResp = NoResponse
  /\ lastRes = NoResult
  /\ diffResult = {}
  /\ diffComputed = FALSE
  /\ schemaBar = << >>
  /\ schemaOutcome = "none"

\* A rejected await inside execute: the promise of execute rejects and the
\* CLI framework hands the error to BuildCommand.catch
Throw(step, e) ==
  /\ pc' = "catch"
  /\ thrown' = e
  /\ failedStep' = step
  /\ UNCHANGED completed

\* An await that resolved: go on with the next statement
Proceed(step, next) ==
  /\ pc' = next
  /\ completed' = completed \cup {step}
  /\ UNCHANGED <<thrown, failedStep>>

\* process.exit(code): the process ends here, nothing after it runs
ProcessExit(code) ==
  /\ pc' = "exited"
  /\ exitCode' = code

\* A step of execute that is one await on code outside this file
ExternalStep(step, next) ==
  /\ pc = step
  /\ started' = Append(started, step)
  /\ \E ok \in BOOLEAN :
       IF ok THEN Proceed(step, next) ELSE Throw(step, "StepError")
  /\ UNCHANGED <<exitCode, gitignoreWritten, token, cciVars, schemaVars>>

\* Mutant: the catch block of processConfig logs and goes on (no process.exit(1))
ProcessConfigNoExit ==
  /\ pc = "processConfig"
  /\ started' = Append(started, "processConfig")
  /\ \E ok \in BOOLEAN :
       IF ok
       THEN Proceed("processConfig", "buildSchema") /\ UNCHANGED exitCode
       ELSE /\ pc' = "buildSchema"
            /\ failedStep' = "processConfig"
            /\ UNCHANGED <<exitCode, thrown, completed>>
  /\ UNCHANGED <<gitignoreWritten, token, cciVars, schemaVars>>

\* try { await configManager.processConfig() } catch (e) { ...; process.exit(1) }
ProcessConfig ==
  /\ pc = "processConfig"
  /\ started' = Append(started, "processConfig")
  /\ \E ok \in BOOLEAN :
       IF ok
       THEN Proceed("processConfig", "buildSchema") /\ UNCHANGED exitCode
       ELSE /\ ProcessExit(1)
            /\ failedStep' = "processConfig"
            /\ UNCHANGED <<thrown, completed>>
  /\ UNCHANGED <<gitignoreWritten, token, cciVars, schemaVars>>

\* createDBServer, createAndInitializeDatabase, buildSchema
BuildSchema == ExternalStep("buildSchema", "codegen")

\* getASTSchema, new Codegen(...), codegen.execute()
CodegenExecute == ExternalStep("codegen", "checkClientInfo")

\* await waitForDB(configManager.config, apiURL, false)
WaitForDB == ExternalStep("waitForDB", "checkGraphqlSchema")

\* await buildProductionSpa(configManager, database, apiURL)
BuildProductionSpa == ExternalStep("buildProductionSpa", "outputGitignore")

\* await fs.outputFile(configManager.outputGitignorePath, 'index.html\nassets/')
OutputGitignore ==
  /\ pc = "outputGitignore"
  /\ started' = Append(started, "outputGitignore")
  /\ \E ok \in BOOLEAN :
       IF ok
       THEN Proceed("outputGitignore", "summary") /\ gitignoreWritten' = TRUE
       ELSE Throw("outputGitignore", "StepError") /\ UNCHANGED gitignoreWritten
  /\ UNCHANGED <<exitCode, token, cciVars, schemaVars>>

\* summary({...}); process.exit()
SummaryAndExit ==
  /\ pc = "summary"
  /\ ProcessExit(0)
  /\ UNCHANGED <<started, completed, failedStep, thrown, gitignoreWritten,
                 token, cciVars, schemaVars>>

\* Mutant: the catch handler exits with the default code
CatchExitsZero ==
  /\ pc = "catch"
  /\ ProcessExit(0)
  /\ UNCHANGED <<started, completed, failedStep, thrown, gitignoreWritten,
                 token, cciVars, schemaVars>>

\* async catch(error) { console.error(error); process.exit(1) }
Catch ==
  /\ pc = "catch"
  /\ ProcessExit(1)
  /\ UNCHANGED <<started, completed, failedStep, thrown, gitignoreWritten,
                 token, cciVars, schemaVars>>

----------------------------------------------------------------------------
(* BuildCommand.checkClientInfo *)

\* Mutant: only an indexed branch counts as known
BranchKnownOnlySuccess(status) == status = "success"

\* if (!(res.status === 'unknown')) { branchKnown = true }
BranchKnown(status) == ~(status = "unknown")

\* the same test inside the polling callback
PollStatusKnown(status) == ~(status = "unknown")

\* Mutant: one iteration too many
LoopConditionOffByOne(n) == n <= 6

\* for (let i = 0; i <= 5; i++)
LoopCondition(n) == n <= 5

\* A status request of checkClientInfo threw: the error leaves checkClientInfo
RequestThrew(e) ==
  /\ requestFailed' = TRUE
  /\ cciOutcome' = "threwRequest"
  /\ Throw("checkClientInfo", e)

\* Mutant: the catch block of the initial request prints the summary and does
\* not rethrow
InitialRequestSwallowsError ==
  /\ pc = "checkClientInfo"
  /\ started' = Append(started, "checkClientInfo")
  /\ \E resp \in Responses :
       LET res == request(token, resp) IN
       /\ lastResp' = resp
       /\ lastRes' = res
       /\ reqCount' = reqCount + 1
       /\ pc' = "branchCheck"
       /\ IF res.kind = "value"
          THEN /\ bar' = Append(bar, "ok")
               /\ branchKnown' = BranchKnown(res.status)
               /\ initialStatus' = res.status
               /\ UNCHANGED requestFailed
          ELSE /\ requestFailed' = TRUE
               /\ UNCHANGED <<bar, branchKnown, initialStatus>>
       /\ UNCHANGED <<thrown, failedStep, completed, cciOutcome>>
  /\ UNCHANGED <<exitCode, gitignoreWritten, token, i, branchBar, pollCount,
                 sleepCount, sawKnownPoll, schemaVars>>

\* The try block around the initial request
InitialRequest ==
  /\ pc = "checkClientInfo"
  /\ started' = Append(started, "checkClientInfo")
  /\ \E resp \in Responses :
       LET res == request(token, resp) IN
       /\ lastResp' = resp
       /\ lastRes' = res
       /\ reqCount' = reqCount + 1
       /\ IF res.kind = "value"
          THEN /\ bar' = Append(bar, "ok")
               /\ branchKnown' = BranchKnown(res.status)
               /\ initialStatus' = res.status
               /\ pc' = "branchCheck"
               /\ UNCHANGED <<thrown, failedStep, completed, requestFailed, cciOutcome>>
          ELSE /\ RequestThrew(res.error)
               /\ UNCHANGED <<bar, branchKnown, initialStatus>>
  /\ UNCHANGED <<exitCode, gitignoreWritten, token, i, branchBar, pollCount,
                 sleepCount, sawKnownPoll, schemaVars>>

\* if (branchKnown) { branchBar.tick(ok); return }  else enter the for loop
BranchCheck ==
  /\ pc = "branchCheck"
  /\ IF branchKnown
     THEN /\ branchBar' = Append(branchBar, "ok")
          /\ cciOutcome' = "returned"
          /\ Proceed("checkClientInfo", "waitForDB")
          /\ UNCHANGED i
     ELSE /\ i' = 0
          /\ pc' = IF LoopCondition(0) THEN "sleep" ELSE "afterLoop"
          /\ UNCHANGED <<branchBar, cciOutcome, thrown, failedStep, completed>>
  /\ UNCHANGED <<exitCode, started, gitignoreWritten, token, branchKnown, bar,
                 reqCount, pollCount, sleepCount, initialStatus, sawKnownPoll,
                 requestFailed, lastResp, lastRes, schemaVars>>

\* sleepAndCallFunc({fn, ms: 5000}): waits ms, then calls fn
SleepAndCallFunc_Sleep ==
  /\ pc = "sleep"
  /\ sleepCount' = sleepCount + 1
  /\ pc' = "poll"
  /\ UNCHANGED <<exitCode, started, completed, failedStep, thrown, gitignoreWritten,
                 token, branchKnown, i, bar, branchBar, reqCount, pollCount,
                 initialStatus, sawKnownPoll, requestFailed, cciOutcome, lastResp,
                 lastRes, schemaVars>>

\* The callback fn of one iteration, then i++ and the loop test.  The return
\* inside fn ends fn, not checkClientInfo.
Poll ==
  /\ pc = "poll"
  /\ \E resp \in Responses :
       LET res == request(token, resp) IN
       /\ lastResp' = resp
       /\ lastRes' = res
       /\ reqCount' = reqCount + 1
       /\ pollCount' = pollCount + 1
       /\ IF res.kind = "value"
          THEN /\ branchBar' = IF PollStatusKnown(res.status)
                               THEN Append(branchBar, "ok") ELSE branchBar
               /\ sawKnownPoll' = (sawKnownPoll \/ PollStatusKnown(res.status))
               /\ i' = i + 1
               /\ pc' = IF LoopCondition(i + 1) THEN "sleep" ELSE "afterLoop"
               /\ UNCHANGED <<thrown, failedStep, completed, requestFailed, cciOutcome>>
          ELSE /\ RequestThrew(res.error)
               /\ UNCHANGED <<branchBar, sawKnownPoll, i>>
  /\ UNCHANGED <<exitCode, started, gitignoreWritten, token, branchKnown, bar,
                 sleepCount, initialStatus, schemaVars>>

\* After the loop: branchBar.tick(fail); logger.error(...); throw new Error(...)
BranchNotOnTinaCloud ==
  /\ pc = "afterLoop"
  /\ branchBar' = Append(branchBar, "fail")
  /\ cciOutcome' = "threwBranch"
  /\ Throw("checkClientInfo", "Branch is not on Tina Cloud")
  /\ UNCHANGED <<exitCode, started, gitignoreWritten, token, branchKnown, i, bar,
                 reqCount, pollCount, sleepCount, initialStatus, sawKnownPoll,
                 requestFailed, lastResp, lastRes, schemaVars>>

----------------------------------------------------------------------------
(* BuildCommand.checkGraphqlSchema *)

\* fetchRemoteGraphqlSchema, buildClientSchema, getGraphQLSchemaFromBridge,
\* buildASTSchema: any of them may reject or throw
FetchSchemas ==
  /\ pc = "checkGraphqlSchema"
  /\ started' = Append(started, "checkGraphqlSchema")
  /\ \E ok \in BOOLEAN :
       IF ok
       THEN /\ pc' = "schemaDiff"
            /\ UNCHANGED <<thrown, failedStep, completed, schemaOutcome>>
       ELSE /\ schemaOutcome' = "threwOther"
            /\ Throw("checkGraphqlSchema", "StepError")
  /\ UNCHANGED <<exitCode, gitignoreWritten, token, cciVars, diffResult,
                 diffComputed, schemaBar>>

\* Mutant: a single change is let through
DiffIsEmptyLoose(d) == Cardinality(d) <= 1

\* diffResult.length === 0
DiffIsEmpty(d) == Cardinality(d) = 0

\* const diffResult = await diff(local, remote); if (...) tick(ok) else tick(fail), throw
SchemaDiff ==
  /\ pc = "schemaDiff"
  /\ \E d \in SUBSET ChangeKinds :
       /\ diffResult' = d
       /\ diffComputed' = TRUE
       /\ IF DiffIsEmpty(d)
          THEN /\ schemaBar' = Append(schemaBar, "ok")
               /\ schemaOutcome' = "returned"
               /\ Proceed("checkGraphqlSchema", "buildProductionSpa")
          ELSE /\ schemaBar' = Append(schemaBar, "fail")
               /\ schemaOutcome' = "threwMismatch"
               /\ Throw("checkGraphqlSchema", "SchemaMismatch")
  /\ UNCHANGED <<exitCode, started, gitignoreWritten, token, cciVars>>

----------------------------------------------------------------------------

Next ==
  \/ ProcessConfig
  \/ BuildSchema
  \/ CodegenExecute
  \/ InitialRequest
  \/ BranchCheck
  \/ SleepAndCallFunc_Sleep
  \/ Poll
  \/ BranchNotOnTinaCloud
  \/ WaitForDB
  \/ FetchSchemas
  \/ SchemaDiff
  \/ BuildProductionSpa
  \/ OutputGitignore
  \/ SummaryAndExit
  \/ Catch

Spec == Init /\ [][Next]_vars

----------------------------------------------------------------------------
(* Properties *)

Range(seq) == {seq[k] : k \in 1..Len(seq)}

\* checkClientInfo has ended, by a return or a throw
CheckClientInfoEnded == cciOutcome # "none"

\* C1: when the initial request returned 'unknown', some poll returned another
\* status and no request failed, checkClientInfo returns normally (it throws
\* 'Branch is not on Tina Cloud' only if the status is still unknown).
C1_KnownPollReturnsNormally ==
  (CheckClientInfoEnded /\ initialStatus = "unknown" /\ sawKnownPoll /\ ~requestFailed)
    => (cciOutcome = "returned" /\ thrown # "Branch is not on Tina Cloud")

\* C2: once a poll has observed a status other than 'unknown', checkClientInfo
\* sleeps no more and sends no further status request.
C2_NoPollAfterKnown ==
  [][sawKnownPoll => (reqCount' = reqCount /\ sleepCount' = sleepCount)]_vars

\* C3: at most 6 polls follow the initial request (at most 7 requests in all);
\* the 'Branch is not on Tina Cloud' error is thrown after exactly 6 polls, and
\* it is what happens once the initial request and 6 polls returned 'unknown'.
C3_BoundedPolling ==
  /\ pollCount <= 6
  /\ reqCount <= 7
  /\ sleepCount <= 6
  /\ (cciOutcome = "threwBranch" =>
        pollCount = 6 /\ thrown = "Branch is not on Tina Cloud")
  /\ (initialStatus = "unknown" /\ pollCount = 6 /\ ~sawKnownPoll /\ ~requestFailed
        => (pc = "afterLoop" \/ cciOutcome = "threwBranch"))

C3_Witness ==
  /\ cciOutcome = "threwBranch"
  /\ initialStatus = "unknown"
  /\ ~sawKnownPoll
  /\ pollCount = 6
  /\ reqCount = 7

\* C4: a run that ended exits with code 1 if a step failed and with code 0
\* only if every step completed without error.
C4_ExitCode ==
  pc = "exited" =>
    /\ exitCode \in {0, 1}
    /\ (failedStep # "none" => exitCode = 1)
    /\ (exitCode = 0 => failedStep = "none" /\ completed = Range(StepOrder))
    /\ (exitCode = 1 => failedStep # "none")

C4_Witness ==
  /\ pc = "exited"
  /\ exitCode = 1
  /\ failedStep = "checkGraphqlSchema"
  /\ thrown = "SchemaMismatch"

C6_StepOrder ==
  /\ Len(started) <= Len(StepOrder)
  /\ \A k \in 1..Len(started) : started[k] = StepOrder[k]
  /\ \A k \in 1..(Len(started) - 1) : started[k] \in completed
  /\ (failedStep # "none" => started[Len(started)] = failedStep)
  /\ (failedStep \in {"processConfig", "checkClientInfo", "waitForDB",
                      "checkGraphqlSchema"}
        => ("buildProductionSpa" \notin Range(started) /\ ~gitignoreWritten))
  /\ (gitignoreWritten => "buildProductionSpa" \in completed)

C6_Witness ==
  /\ pc = "exited"
  /\ failedStep = "waitForDB"
  /\ started = SubSeq(StepOrder, 1, 5)
  /\ ~gitignoreWritten

\* C7: a failed status request is never retried: after a failed initial request
\* exactly one request was sent and nothing was polled, and after any failed
\* request checkClientInfo sleeps no more and sends no further request.
C7_NoRetry ==
  /\ [](requestFailed =>
          /\ cciOutcome = "threwRequest"
          /\ pc \in {"catch", "exited"}
          /\ (initialStatus = "none" =>
                reqCount = 1 /\ pollCount = 0 /\ sleepCount = 0))
  /\ [][requestFailed => (reqCount' = reqCount /\ sleepCount' = sleepCount)]_vars

C7_Witness ==
  /\ requestFailed
  /\ pollCount = 2
  /\ reqCount = 3
  /\ pc = "exited"

\* C8: when the initial request returns a status other than 'unknown',
\* checkClientInfo returns normally after that one request, without sleeping
\* and without polling.
C8_KnownInitially ==
  (initialStatus \notin {"none", "unknown"}) =>
    /\ reqCount = 1
    /\ pollCount = 0
    /\ sleepCount = 0
    /\ (pc # "branchCheck" => cciOutcome = "returned" /\ branchBar = << "ok" >>)

C8_Witness ==
  /\ initialStatus = "failed"
  /\ cciOutcome = "returned"
  /\ reqCount = 1
  /\ "checkClientInfo" \in completed

C10_BranchBarTickedOnce ==
  (CheckClientInfoEnded /\ initialStatus # "none" /\ ~requestFailed) =>
    /\ Len(branchBar) = 1
    /\ ("ok" \in Range(branchBar) => cciOutcome = "returned")
    /\ ("fail" \in Range(branchBar) => cciOutcome = "threwBranch")
    /\ ~("ok" \in Range(branchBar) /\ "fail" \in Range(branchBar))

====
